---------------------------- MODULE Spec2Model ----------------------------
(***************************************************************************)
(* A model of the jogger job manager (lib/job): one Job with its           *)
(* exec.Cmd, reaper goroutine, OutputStreamer and stream readers, the      *)
(* Manager's registry keyed by keyString(username, jobID), the cgroup      *)
(* manager (lib/cgroup) and the parser of the jog command line.            *)
(*                                                                         *)
(* Spec     the life of one Job: Manager.Start/StartNewJob, the child      *)
(*          process, exec.Cmd's context watcher, the reaper goroutine,     *)
(*          the output copier calling Write, Manager.Stop/Status/          *)
(*          OutputStream and the reader goroutines of NewStream.           *)
(* FairSpec Spec with weak fairness on the goroutines' steps.              *)
(* OMSpec   an OutputStreamer driven through its exported methods.         *)
(* CallSpec the same with Write and Next in the steps in which they take   *)
(*          and release o.mu, and with what Write returns; CallFairSpec    *)
(*          adds fairness on the steps that wait only for o.mu.            *)
(* MgrSpec  the registry: Manager.Start/Stop/Status/OutputStream called    *)
(*          with arbitrary (username, jobID) strings.                      *)
(* CgSpec   Manager.Start with the cgroup manager: AddGroup, StartNewJob,  *)
(*          the registration and the deferred cgroup cleanup.              *)
(* FsmSpec  the cgroup manager driven through AddGroup and RemoveGroup.    *)
(* OMFairSpec  the streamer with one reader, its ticker and its consumer  *)
(*          scheduled.                                                     *)
(* CmdSpec  the jog command line: command.NewCommand applied to argument   *)
(*          lists.                                                         *)
(*                                                                         *)
(* The model follows a Job whose construction completes.  In the source    *)
(* as given, newJob (lines 67-70) writes through cmd.SysProcAttr, which    *)
(* exec.CommandContext leaves nil, and NewManager never sets               *)
(* cgroupFSManager; both are taken as wired up, so that the lifecycle      *)
(* behind them can be examined.  Likewise AddGroup opens memory.max with   *)
(* os.Open, which is read-only, so that its WriteString fails; the write   *)
(* is taken as able to succeed as well as to fail.                         *)
(***************************************************************************)
EXTENDS Integers, Sequences, FiniteSets, TLC

\* ------------------------------------------------------------------ bounds
\* Most bytes the child writes in one run.
MaxBuf == 3
\* Most bytes of one Write payload.
MaxWriteLen == 2
\* OutputStreamer.streamMessageSize (default 1024, WithStreamMessageSize), scaled down.
StreamMessageSize == 2
\* Readers of a streamer that is used on its own (OMSpec).
NReaders == 1
\* Jobs the registry model starts.
MaxJobs == 2

\* make(chan []byte, 2)
StreamChanCap == 2


\* ----------------------------------------------------------- status values
RUNNING == "RUNNING"
COMPLETED == "COMPLETED"
STOPPED == "STOPPED"
KILLED == "KILLED"
FAILED == "FAILED"
\* the atomic.Value before its first Store
UNSET == "UNSET"
Terminal == {COMPLETED, STOPPED, KILLED, FAILED}

\* ------------------------------------------------- wait status (Linux)
\* syscall.WaitStatus: low 7 bits 0 = exited (code in bits 8..15),
\* 0x7f = stopped, otherwise the terminating signal; 0x80 = core dumped.
SIGKILL == 9
SIGSEGV == 11
SIGTERM == 15
WsMask == 127
WsCore == 128
WsShift == 256

ExitedWith(code) == code * WsShift
KilledBy(sig) == sig

\* syscall.WaitStatus.Signaled
Signaled(w) == (w % (WsMask + 1)) # WsMask /\ (w % (WsMask + 1)) # 0

\* a faulty Signal: takes the exit code for the signal number
SignalFromExitCode(w) == IF Signaled(w) THEN w % (WsMask + 1) ELSE w \div WsShift

\* syscall.WaitStatus.Signal: -1 unless the process was terminated by a signal
Signal(w) == IF Signaled(w) THEN w % (WsMask + 1) ELSE -1

\* os.ProcessState.Success
Success(w) == w = 0

\* The wait statuses a child ends with on its own account: exit codes 0, 1
\* and 15, SIGSEGV with a core dump, and a SIGKILL or SIGTERM sent by
\* somebody else (the OOM killer, an operator).
OwnExits == {ExitedWith(0), ExitedWith(1), ExitedWith(SIGTERM),
             KilledBy(SIGSEGV) + WsCore, KilledBy(SIGKILL), KilledBy(SIGTERM)}

\* The error cmd.Wait returns: nil, an *exec.ExitError carrying the wait
\* status, or another error (context.Canceled, ErrWaitDelay, a copy error).
NilErr == [kind |-> "nil", ws |-> 0]
ExitErr(w) == [kind |-> "exit", ws |-> w]
OtherErr == [kind |-> "other", ws |-> 0]

\* ----------------------------------------------------------------- state
VARIABLES
    \* Manager.Start / StartNewJob
    startPc,        \* "init", "spawned", "returned", "registered", "failed"
    status,         \* Job.status
    cancelled,      \* Job.cancel has been called
    shutdown,       \* the server's shutdownCtx is cancelled
    doneCtx,        \* Job.doneCtx is done (markAsDone called)
    \* the child process and exec.Cmd
    child,          \* "none", "running", "exited" (not yet reaped), "reaped"
    ws,             \* the child's wait status once it has exited
    termDelivered,  \* cmd.Cancel delivered SIGTERM to the child
    gracefulExit,   \* the child exited with code 0 after cmd.Cancel's SIGTERM
    watchPc,        \* exec.Cmd.watchCtx: "idle", "watch", "delay", "result", "done"
    watchErr,       \* the error watchCtx reports: "nil" or "canceled"
    copierDone,     \* the goroutine copying the child's output has finished
    reaperPc,       \* "idle", "procwait", "ctxresult", "await", "setstatus",
                    \* "markdone", "closewriter", "done"
    werr,           \* the reaper's error from cmd.Wait so far
    \* OutputStreamer
    output,         \* o.output
    length,         \* o.length
    writerClosed,   \* o.writerClosed
    wpc,            \* Write: "idle", "locked" (holds o.mu)
    \* readers (NewStream goroutines)
    rpc,            \* "none", "top", "next", "slice", "send", "eq", "closedchk",
                    \* "select", "eos", "cancelled"
    index,          \* the goroutine's index
    msg,            \* the chunk Next returned
    stream,         \* the channel's buffered chunks
    sent,           \* every byte sent on the channel so far, in order
    rctx,           \* the reader's context is cancelled
    lateBorn,       \* NewStream ran after CloseWriter
    \* observations
    stopOnRunning,  \* a Manager.Stop succeeded while the status was RUNNING
    \* a Write call as its caller sees it (CallSpec)
    winput,         \* the bytes passed to the Write in progress
    wres,           \* what the last Write returned: [n, err]
    \* Manager.Start with the cgroup manager (CgSpec, FsmSpec), per attempt
    cgPc,           \* where the Start (or AddGroup) call stands
    dirExists,      \* the leaf directory exists
    dirFd,          \* the handle os.Open(dirPath) gave is open
    memFd,          \* the handle to memory.max is open
    groups,         \* FSManager.groups: the names that have an entry
    addFail,        \* the step AddGroup failed at: "none", "mkdir", "open",
                    \* "memopen", "write"
    rmFailed,       \* AddGroup's os.Remove(dirPath) was tried and failed
    removeRes,      \* what the last RemoveGroup returned: "none" (not
                    \* called), "nil", "notfound"
    cgChild,        \* the job's child: "none", "running", "exited"
    cgStatus,       \* the job's status cell
    cgDone,         \* the job's done-signal has fired
    cgReg,          \* the attempts whose job is in Manager.jobMap
    \* the registry (MgrSpec)
    jobMap,         \* Manager.jobMap: key -> job number
    jobOwner,       \* per job number: the username it was started by
    jobId,          \* per job number: the uuid Start returned
    jobCancelled,   \* job numbers whose Stop has been called
    jobRead,        \* job numbers whose Status or OutputStream was reached
    lastCall,       \* the last Stop/Status/OutputStream call and what it found
    \* the jog command line (CmdSpec)
    cli             \* a NewCommand call: [pc, args, res]

jobVars == <<startPc, status, cancelled, shutdown, doneCtx, child, ws, termDelivered,
             gracefulExit, watchPc, watchErr, copierDone, reaperPc, werr>>
jobVars_noReaper == <<startPc, status, cancelled, shutdown, doneCtx, child, ws,
                     termDelivered, gracefulExit, watchPc, watchErr, copierDone, werr>>
omVars == <<output, length, writerClosed, wpc>>
readerVars == <<rpc, index, msg, stream, sent, rctx, lateBorn>>
obsVars == <<stopOnRunning>>
cgVars == <<cgPc, dirExists, dirFd, memFd, groups, addFail, rmFailed, removeRes,
            cgChild, cgStatus, cgDone, cgReg>>
mgrVars == <<jobMap, jobOwner, jobId, jobCancelled, jobRead, lastCall, cgVars>>
callVars == <<winput, wres>>
cliVars == <<cli>>
vars == <<jobVars, omVars, readerVars, obsVars, mgrVars, callVars, cliVars>>

\* The readers there are: one on the job Spec follows (the readers of a
\* streamer share nothing but the streamer, which they only read), NReaders
\* on the streamer of OMSpec.
Readers == DOMAIN rpc
JobReaders == {1}
StreamerReaders == 1..NReaders

NoCall == [op |-> "none", user |-> <<>>, found |-> FALSE, job |-> 0,
           err |-> "none", val |-> "none"]

\* Manager.Start calls the cgroup models follow.
MaxAttempts == 2
Attempts == 1..MaxAttempts

\* No Write has returned yet.
NoResult == [n |-> 0, err |-> "none"]

\* No NewCommand call has been made.
NoCli == [pc |-> "idle", args |-> <<>>, res |-> "none"]

InitJob ==
    /\ startPc = "init"
    /\ status = UNSET
    /\ cancelled = FALSE
    /\ shutdown = FALSE
    /\ doneCtx = FALSE
    /\ child = "none"
    /\ ws = 0
    /\ termDelivered = FALSE
    /\ gracefulExit = FALSE
    /\ watchPc = "idle"
    /\ watchErr = "nil"
    /\ copierDone = FALSE
    /\ reaperPc = "idle"
    /\ werr = NilErr
    /\ stopOnRunning = FALSE

\* NewOutputStreamer, with no reader yet
InitStreamer(R) ==
    /\ output = <<>>
    /\ length = 0
    /\ writerClosed = FALSE
    /\ wpc = "idle"
    /\ rpc = [r \in R |-> "none"]
    /\ index = [r \in R |-> 0]
    /\ msg = [r \in R |-> <<>>]
    /\ stream = [r \in R |-> <<>>]
    /\ sent = [r \in R |-> <<>>]
    /\ rctx = [r \in R |-> FALSE]
    /\ lateBorn = [r \in R |-> FALSE]
    /\ winput = <<>>
    /\ wres = NoResult

\* NewManager
InitManager ==
    /\ jobMap = <<>>
    /\ jobOwner = <<>>
    /\ jobId = <<>>
    /\ jobCancelled = {}
    /\ jobRead = {}
    /\ lastCall = NoCall

\* NewFSManager, and no Manager.Start begun, for the Start calls in A
InitCgroups(A) ==
    /\ cgPc = [a \in A |-> "idle"]
    /\ dirExists = [a \in A |-> FALSE]
    /\ dirFd = [a \in A |-> FALSE]
    /\ memFd = [a \in A |-> FALSE]
    /\ groups = {}
    /\ addFail = [a \in A |-> "none"]
    /\ rmFailed = [a \in A |-> FALSE]
    /\ removeRes = [a \in A |-> "none"]
    /\ cgChild = [a \in A |-> "none"]
    /\ cgStatus = [a \in A |-> UNSET]
    /\ cgDone = [a \in A |-> FALSE]
    /\ cgReg = {}

Init ==
    InitJob /\ InitStreamer(JobReaders) /\ InitManager /\ InitCgroups({}) /\ cli = NoCli

\* ------------------------------------------------------------------- Job
JobCtxDone == cancelled \/ shutdown

UnchangedOM == UNCHANGED <<omVars, readerVars, mgrVars, callVars, cliVars>>

\* Manager.Start up to StartNewJob's j.start(): newJob, then cmd.Start
\* succeeds: the child runs, exec.Cmd starts its context watcher and the
\* copier of the child's output, and start() spawns the reaper goroutine.
\* cmd.Start refuses a context that is already done.
JobStartOk ==
    /\ startPc = "init"
    /\ ~JobCtxDone
    /\ startPc' = "spawned"
    /\ child' = "running"
    /\ watchPc' = "watch"
    /\ reaperPc' = "procwait"
    /\ UNCHANGED <<status, cancelled, shutdown, doneCtx, ws, termDelivered, gracefulExit, watchErr, copierDone, werr, obsVars>>
    /\ UnchangedOM

\* cmd.Start fails: StartNewJob marks the job done and returns the error;
\* Manager.Start returns it and registers nothing.
JobStartFail ==
    /\ startPc = "init"
    /\ startPc' = "failed"
    /\ doneCtx' = TRUE
    /\ UNCHANGED <<status, cancelled, shutdown, child, ws, termDelivered, gracefulExit, watchPc, watchErr, copierDone, reaperPc, werr, obsVars>>
    /\ UnchangedOM

\* StartNewJob line 42: j.status.Store(RUNNING), after start() has returned.
StoreRunning ==
    /\ startPc = "spawned"
    /\ status' = RUNNING
    /\ startPc' = "returned"
    /\ UNCHANGED <<cancelled, shutdown, doneCtx, child, ws, termDelivered, gracefulExit, watchPc, watchErr, copierDone, reaperPc, werr, obsVars>>
    /\ UnchangedOM

\* a faulty Start: the job enters the registry before StartNewJob has stored RUNNING
RegisterBeforeStore ==
    /\ startPc = "spawned"
    /\ startPc' = "registered"
    /\ UNCHANGED <<status, cancelled, shutdown, doneCtx, child, ws, termDelivered,
                   gracefulExit, watchPc, watchErr, copierDone, reaperPc, werr, obsVars>>
    /\ UNCHANGED <<omVars, readerVars, mgrVars, callVars, cliVars>>

\* Manager.Start lines 205-209: the job enters the registry and its id is returned.
Register ==
    /\ startPc = "returned"
    /\ startPc' = "registered"
    /\ UNCHANGED <<status, cancelled, shutdown, doneCtx, child, ws, termDelivered,
                   gracefulExit, watchPc, watchErr, copierDone, reaperPc, werr, obsVars>>
    /\ UnchangedOM

\* The server's shutdown() cancels shutdownCtx, the parent of every job's context.
Shutdown ==
    /\ ~shutdown
    /\ shutdown' = TRUE
    /\ UNCHANGED <<startPc, status, cancelled, doneCtx, child, ws, termDelivered,
                   gracefulExit, watchPc, watchErr, copierDone, reaperPc, werr, obsVars>>
    /\ UnchangedOM

\* ------------------------------------------------------ the child process
\* The child ends on its own account with wait status w.
ChildExit ==
    /\ child = "running"
    /\ \E w \in OwnExits :
          /\ ws' = w
          /\ gracefulExit' = (gracefulExit \/ (termDelivered /\ w = ExitedWith(0)))
    /\ child' = "exited"
    /\ UNCHANGED <<startPc, status, cancelled, shutdown, doneCtx, termDelivered,
                   watchPc, watchErr, copierDone, reaperPc, werr, obsVars>>
    /\ UnchangedOM

\* ---------------------------------------------------------------- exec.Cmd
\* watchCtx sees the job's context done and runs cmd.Cancel (newJob lines
\* 57-61): Process.Signal(SIGTERM).  A process already reaped gives
\* os.ErrProcessDone and no error is kept; otherwise the signal is sent and
\* ctx.Err() is kept.  A running child either dies of the signal (default
\* disposition) or goes on running (it handles or ignores the signal).
WatchCtxCancel ==
    /\ watchPc = "watch"
    /\ JobCtxDone
    /\ watchPc' = "delay"
    /\ IF child = "reaped"
       THEN /\ watchErr' = "nil"
            /\ UNCHANGED <<child, ws, termDelivered>>
       ELSE /\ watchErr' = "canceled"
            /\ IF child = "running"
               THEN /\ termDelivered' = TRUE
                    /\ \/ child' = "exited" /\ ws' = KilledBy(SIGTERM)
                       \/ UNCHANGED <<child, ws>>
               ELSE UNCHANGED <<child, ws, termDelivered>>
    /\ UNCHANGED <<startPc, status, cancelled, shutdown, doneCtx, gracefulExit,
                   copierDone, reaperPc, werr, obsVars>>
    /\ UnchangedOM

\* watchCtx's WaitDelay timer (newJob line 62) fires before cmd.Wait takes
\* the result: Process.Kill.  A running child dies of SIGKILL.
WatchCtxKill ==
    /\ watchPc = "delay"
    /\ watchPc' = "result"
    /\ IF child = "running"
       THEN child' = "exited" /\ ws' = KilledBy(SIGKILL)
       ELSE UNCHANGED <<child, ws>>
    /\ UNCHANGED <<startPc, status, cancelled, shutdown, doneCtx, termDelivered, gracefulExit,
                   watchErr, copierDone, reaperPc, werr, obsVars>>
    /\ UnchangedOM

\* cmd.Wait, first part: Process.Wait returns once the child has exited; a
\* state that is not a success becomes an *exec.ExitError.
ProcessWait ==
    /\ reaperPc = "procwait"
    /\ child = "exited"
    /\ child' = "reaped"
    /\ werr' = IF Success(ws) THEN NilErr ELSE ExitErr(ws)
    /\ ws' = 0
    /\ reaperPc' = "ctxresult"
    /\ UNCHANGED <<startPc, status, cancelled, shutdown, doneCtx, termDelivered,
                   gracefulExit, watchPc, watchErr, copierDone, obsVars>>
    /\ UnchangedOM

\* cmd.Wait, second part: it takes watchCtx's result.  An error of
\* Process.Wait is preferred; otherwise the watcher's error is reported.
WaitCtxResult ==
    /\ reaperPc = "ctxresult"
    /\ watchPc \in {"watch", "delay", "result"}
    /\ watchPc' = "done"
    /\ werr' = IF werr.kind = "nil" /\ watchPc # "watch" /\ watchErr # "nil"
               THEN OtherErr ELSE werr
    /\ reaperPc' = "await"
    /\ UNCHANGED <<startPc, status, cancelled, shutdown, doneCtx, child, ws, termDelivered,
                   gracefulExit, watchErr, copierDone, obsVars>>
    /\ UnchangedOM

\* The goroutine copying the child's output reaches the end of the pipe
\* (the child has exited, or WaitDelay closed the pipe) and finishes.
CopierEOF ==
    /\ child \in {"exited", "reaped"}
    /\ ~copierDone
    /\ wpc = "idle"
    /\ copierDone' = TRUE
    /\ UNCHANGED <<startPc, status, cancelled, shutdown, doneCtx, child, ws, termDelivered,
                   gracefulExit, watchPc, watchErr, reaperPc, werr, obsVars>>
    /\ UnchangedOM

\* cmd.Wait, last part: awaitGoroutines waits for the copier; its error
\* (a copy error, ErrWaitDelay) is reported only if there is none so far.
AwaitGoroutines ==
    /\ reaperPc = "await"
    /\ copierDone
    /\ \E gerr \in {NilErr, OtherErr} :
          werr' = IF werr.kind = "nil" THEN gerr ELSE werr
    /\ reaperPc' = "setstatus"
    /\ UNCHANGED <<startPc, status, cancelled, shutdown, doneCtx, child, ws, termDelivered,
                   gracefulExit, watchPc, watchErr, copierDone, obsVars>>
    /\ UnchangedOM

\* ------------------------------------------------------------- the reaper
\* Job.setDoneStatus: the status stored for the error of cmd.Wait.
DoneStatus(err) ==
    IF err.kind = "nil" THEN COMPLETED
    ELSE IF err.kind = "exit"
         THEN CASE Signal(err.ws) = SIGTERM -> STOPPED
                [] Signal(err.ws) = SIGKILL -> KILLED
                [] OTHER -> FAILED
         ELSE FAILED

\* setDoneStatus stores the terminal status.
SetDoneStatus ==
    /\ reaperPc = "setstatus"
    /\ status' = DoneStatus(werr)
    /\ reaperPc' = "markdone"
    /\ UNCHANGED <<startPc, cancelled, shutdown, doneCtx, child, ws, termDelivered,
                   gracefulExit, watchPc, watchErr, copierDone, werr, obsVars>>
    /\ UnchangedOM

\* setDoneStatus's deferred j.markAsDone().
MarkAsDone ==
    /\ reaperPc = "markdone"
    /\ doneCtx' = TRUE
    /\ reaperPc' = "closewriter"
    /\ werr' = NilErr
    /\ UNCHANGED <<startPc, status, cancelled, shutdown, child, ws, termDelivered,
                   gracefulExit, watchPc, watchErr, copierDone, obsVars>>
    /\ UnchangedOM

\* a faulty CloseWriter: a second call reopens the writer
CloseWriterToggle == writerClosed' = ~writerClosed

\* OutputStreamer.CloseWriter
CloseWriter == writerClosed' = TRUE

\* The reaper's deferred j.streamer.CloseWriter(); the goroutine ends.
ReaperCloseWriter ==
    /\ reaperPc = "closewriter"
    /\ CloseWriter
    /\ reaperPc' = "done"
    /\ UNCHANGED <<jobVars_noReaper, output, length, wpc, readerVars, obsVars, mgrVars, callVars, cliVars>>

\* -------------------------------------------------------- OutputStreamer
Min(a, b) == IF a < b THEN a ELSE b

\* The k bytes written after the first n: byte i of the output is the number i,
\* so that a byte sent twice, skipped or out of place shows.
Payload(n, k) == [i \in 1..k |-> n + i]

\* Write, lines 60-64: take o.mu and load writerClosed; a closed streamer
\* gives ErrOutputStreamerClosed (and o.mu is released).
WriteBegin ==
    /\ wpc = "idle"
    /\ Len(output) < MaxBuf
    /\ wpc' = IF writerClosed THEN "idle" ELSE "locked"
    /\ UNCHANGED <<output, length, writerClosed>>

\* The goroutine copying the child's output calls Write; an error ends the copy.
CopierWrite ==
    /\ child # "none"
    /\ ~copierDone
    /\ WriteBegin
    /\ copierDone' = writerClosed
    /\ UNCHANGED <<startPc, status, cancelled, shutdown, doneCtx, child, ws, termDelivered,
                   gracefulExit, watchPc, watchErr, reaperPc, werr, obsVars>>
    /\ UNCHANGED <<readerVars, mgrVars, callVars, cliVars>>

\* a faulty Write: publishes the length of its input, not of the buffer
WriteAppendInputLength ==
    /\ wpc = "locked"
    /\ \E k \in 1..Min(MaxWriteLen, MaxBuf - Len(output)) :
          /\ output' = output \o Payload(Len(output), k)
          /\ length' = k
    /\ wpc' = "idle"
    /\ UNCHANGED <<jobVars, writerClosed, readerVars, obsVars, mgrVars, callVars, cliVars>>

\* Write, lines 65-67: append, publish the length, release o.mu.
WriteAppend ==
    /\ wpc = "locked"
    /\ \E k \in 1..Min(MaxWriteLen, MaxBuf - Len(output)) :
          /\ output' = output \o Payload(Len(output), k)
          /\ length' = Len(output) + k
    /\ wpc' = "idle"
    /\ UNCHANGED <<jobVars, writerClosed, readerVars, obsVars, mgrVars, callVars, cliVars>>

\* a faulty Next: the ceiling is ignored, all that is left is returned
NextSliceWhole(idx) == SubSeq(output, idx + 1, Len(output))

\* a faulty Next: the chunk starts one byte late
NextSliceSkip(idx) ==
    IF idx + StreamMessageSize > Len(output)
    THEN SubSeq(output, idx + 2, Len(output))
    ELSE SubSeq(output, idx + 2, idx + StreamMessageSize)

\* Next, lines 82-87, under the read lock: output[index:] or
\* output[index : index+streamMessageSize].
NextSlice(idx) ==
    IF idx + StreamMessageSize > Len(output)
    THEN SubSeq(output, idx + 1, Len(output))
    ELSE SubSeq(output, idx + 1, idx + StreamMessageSize)

\* a faulty reader: never takes the writer for closed
WriterClosedNever == FALSE

\* o.writerClosed.Load()
WriterClosedLoad == writerClosed

\* ----------------------------------------------------------------- readers
UnchangedByReader == UNCHANGED <<jobVars, omVars, obsVars, mgrVars, callVars, cliVars>>

\* NewStream line 111: if int64(index) < o.length.Load()
ReaderTop(r) ==
    /\ rpc[r] = "top"
    /\ rpc' = [rpc EXCEPT ![r] = IF index[r] < length THEN "next" ELSE "eq"]
    /\ UNCHANGED <<index, msg, stream, sent, rctx, lateBorn>>
    /\ UnchangedByReader

\* Next line 79: if int64(index) >= o.length.Load() { return nil }
ReaderNext(r) ==
    /\ rpc[r] = "next"
    /\ IF index[r] >= length
       THEN rpc' = [rpc EXCEPT ![r] = "send"] /\ msg' = [msg EXCEPT ![r] = <<>>]
       ELSE rpc' = [rpc EXCEPT ![r] = "slice"] /\ msg' = msg
    /\ UNCHANGED <<index, stream, sent, rctx, lateBorn>>
    /\ UnchangedByReader

\* Next lines 82-87 with o.mu read-locked, then NewStream line 113:
\* index += len(msg).
ReaderSlice(r) ==
    /\ rpc[r] = "slice"
    /\ wpc = "idle"
    /\ msg' = [msg EXCEPT ![r] = NextSlice(index[r])]
    /\ index' = [index EXCEPT ![r] = index[r] + Len(NextSlice(index[r]))]
    /\ rpc' = [rpc EXCEPT ![r] = "send"]
    /\ UNCHANGED <<stream, sent, rctx, lateBorn>>
    /\ UnchangedByReader

\* NewStream line 114: stream <- msg, which waits while the channel is full.
ReaderSend(r) ==
    /\ rpc[r] = "send"
    /\ Len(stream[r]) < StreamChanCap
    /\ stream' = [stream EXCEPT ![r] = Append(stream[r], msg[r])]
    /\ sent' = [sent EXCEPT ![r] = sent[r] \o msg[r]]
    /\ msg' = [msg EXCEPT ![r] = <<>>]
    /\ rpc' = [rpc EXCEPT ![r] = "top"]
    /\ UNCHANGED <<index, rctx, lateBorn>>
    /\ UnchangedByReader

\* NewStream line 118: if int64(index) == o.length.Load()
ReaderEq(r) ==
    /\ rpc[r] = "eq"
    /\ rpc' = [rpc EXCEPT ![r] = IF index[r] = length THEN "closedchk" ELSE "select"]
    /\ UNCHANGED <<index, msg, stream, sent, rctx, lateBorn>>
    /\ UnchangedByReader

\* NewStream lines 121-124: if o.writerClosed.Load() { close(stream); return }
ReaderClosedCheck(r) ==
    /\ rpc[r] = "closedchk"
    /\ rpc' = [rpc EXCEPT ![r] = IF WriterClosedLoad THEN "eos" ELSE "select"]
    /\ UNCHANGED <<index, msg, stream, sent, rctx, lateBorn>>
    /\ UnchangedByReader

\* a faulty reader: after a tick it looks only for the end of the stream
ReaderTickToEnd(r) ==
    /\ rpc[r] = "select"
    /\ rpc' = [rpc EXCEPT ![r] = "eq"]
    /\ UNCHANGED <<index, msg, stream, sent, rctx, lateBorn>>
    /\ UNCHANGED <<jobVars, omVars, obsVars, mgrVars, callVars, cliVars>>

\* NewStream line 131: the ticker fires; loop again.
ReaderTick(r) ==
    /\ rpc[r] = "select"
    /\ rpc' = [rpc EXCEPT ![r] = "top"]
    /\ UNCHANGED <<index, msg, stream, sent, rctx, lateBorn>>
    /\ UnchangedByReader

\* NewStream lines 128-130: the context is done; close(stream); return.
ReaderCtxDone(r) ==
    /\ rpc[r] = "select"
    /\ rctx[r]
    /\ rpc' = [rpc EXCEPT ![r] = "cancelled"]
    /\ UNCHANGED <<index, msg, stream, sent, rctx, lateBorn>>
    /\ UnchangedByReader

\* The consumer (the Output handler's loop) receives the next chunk.
Recv(r) ==
    /\ stream[r] # <<>>
    /\ stream' = [stream EXCEPT ![r] = Tail(stream[r])]
    /\ UNCHANGED <<rpc, index, msg, sent, rctx, lateBorn>>
    /\ UnchangedByReader

\* The caller of OutputStream cancels the context it passed.
CancelReader(r) ==
    /\ rpc[r] # "none"
    /\ ~rctx[r]
    /\ rctx' = [rctx EXCEPT ![r] = TRUE]
    /\ UNCHANGED <<rpc, index, msg, stream, sent, lateBorn>>
    /\ UnchangedByReader

\* ------------------------------------------- Manager, on the started job
\* Job.Status: the value of the cell; an unset cell panics.
JobStatus == IF status = UNSET THEN "panic" ELSE status

\* a faulty Stop: cancels a live context and revives a cancelled one
JobStopToggle ==
    /\ cancelled' = ~cancelled
    /\ UNCHANGED <<startPc, status, shutdown, doneCtx, child, ws, termDelivered,
                   gracefulExit, watchPc, watchErr, copierDone, reaperPc, werr>>

\* a faulty Stop: cancels and stores STOPPED itself
JobStopAndStore ==
    /\ cancelled' = TRUE
    /\ status' = STOPPED
    /\ UNCHANGED <<startPc, shutdown, doneCtx, child, ws, termDelivered,
                   gracefulExit, watchPc, watchErr, copierDone, reaperPc, werr>>

\* Job.Stop: j.cancel(), the CancelFunc of the job's own context; nothing
\* else of the Job is touched and nothing is returned.
JobStop ==
    /\ cancelled' = TRUE
    /\ UNCHANGED <<startPc, status, shutdown, doneCtx, child, ws, termDelivered,
                   gracefulExit, watchPc, watchErr, copierDone, reaperPc, werr>>

\* Manager.Stop finds the job, calls Job.Stop and returns nil.
ManagerStop ==
    /\ startPc = "registered"
    /\ JobStop
    /\ stopOnRunning' = (stopOnRunning \/ status = RUNNING)
    /\ UnchangedOM

\* Manager.Status finds the job and returns Job.Status().
ManagerStatus ==
    /\ startPc = "registered"
    /\ JobStatus \in Terminal \cup {RUNNING, "panic"}
    /\ UNCHANGED <<jobVars, stopOnRunning>>
    /\ UnchangedOM

\* Manager.OutputStream finds the job; NewStream makes the channel and
\* starts the reader goroutine with index 0.
ManagerOutputStream(r) ==
    /\ startPc = "registered"
    /\ rpc[r] = "none"
    /\ rpc' = [rpc EXCEPT ![r] = "top"]
    /\ lateBorn' = [lateBorn EXCEPT ![r] = writerClosed]
    /\ UNCHANGED <<index, msg, stream, sent, rctx>>
    /\ UnchangedByReader

ReaderStep(r) ==
    \/ ReaderTop(r)
    \/ ReaderNext(r)
    \/ ReaderSlice(r)
    \/ ReaderSend(r)
    \/ ReaderEq(r)
    \/ ReaderClosedCheck(r)
    \/ ReaderTick(r)
    \/ ReaderCtxDone(r)

Next ==
    \/ JobStartOk
    \/ JobStartFail
    \/ StoreRunning
    \/ Register
    \/ Shutdown
    \/ ChildExit
    \/ WatchCtxCancel
    \/ WatchCtxKill
    \/ ProcessWait
    \/ WaitCtxResult
    \/ CopierEOF
    \/ AwaitGoroutines
    \/ SetDoneStatus
    \/ MarkAsDone
    \/ ReaperCloseWriter
    \/ CopierWrite
    \/ WriteAppend
    \/ ManagerStop
    \/ ManagerStatus
    \/ \E r \in Readers : ManagerOutputStream(r)
    \/ \E r \in Readers : ReaderStep(r)
    \/ \E r \in Readers : Recv(r)
    \/ \E r \in Readers : CancelReader(r)

Spec == Init /\ [][Next]_vars

\* ---------------------------------------------------------- fairness
\* The goroutines keep running (Go's scheduler), the ticker keeps ticking
\* and the consumer of a stream keeps receiving.  Every reader step moves
\* rpc and every receive shortens stream, so the subscripts name just those.
FairSpec ==
    /\ Spec
    /\ \A r \in JobReaders : WF_rpc(ReaderStep(r)) /\ WF_stream(Recv(r))

\* ------------------------------------------------------------------ claims
IsPrefix(a, b) == Len(a) <= Len(b) /\ a = SubSeq(b, 1, Len(a))

\* C1: once the status cell holds a terminal value it never changes again,
\* in particular never back to RUNNING.
C1_TerminalNeverChanges == [][(status \in Terminal) => (status' = status)]_vars

\* C2: a reader started before CloseWriter and never cancelled whose channel
\* is closed has been sent exactly the output written, in write order.
C2_ReaderGetsAll ==
    \A r \in Readers :
        (rpc[r] = "eos" /\ ~lateBorn[r] /\ ~rctx[r]) => sent[r] = output

\* C6: once the child of a successfully started job has exited and the
\* reaper has finished, Status is terminal.
C6_ReapedIsTerminal ==
    (reaperPc = "done" /\ startPc \in {"returned", "registered"}) => status \in Terminal

\* C7: after a Manager.Stop that succeeded on a RUNNING job, once exec.Cmd's
\* watcher and the reaper have finished the job's status is terminal.
C7_StopLeadsToTerminal ==
    (stopOnRunning /\ reaperPc = "done" /\ watchPc = "done") => status \in Terminal

\* C8: when a stopped job's child handled the graceful-termination signal and
\* exited with code zero, the status setDoneStatus stores is STOPPED.
C8_GracefulExitIsStopped ==
    [][(reaperPc = "setstatus" /\ reaperPc' = "markdone"
          /\ cancelled /\ ~shutdown /\ gracefulExit)
       => (status' = STOPPED)]_vars

\* C9: setDoneStatus stores COMPLETED for a nil error, STOPPED for an exit-error
\* of a child terminated by SIGTERM, KILLED for one terminated by SIGKILL, and
\* FAILED for every other exit-error and every other error; never RUNNING.
C9_DoneStatusTable ==
    [][(reaperPc = "setstatus" /\ reaperPc' = "markdone") =>
         /\ werr.kind = "nil" => status' = COMPLETED
         /\ (werr.kind = "exit" /\ werr.ws \in {KilledBy(SIGTERM), KilledBy(SIGTERM) + WsCore})
               => status' = STOPPED
         /\ (werr.kind = "exit" /\ werr.ws \in {KilledBy(SIGKILL), KilledBy(SIGKILL) + WsCore})
               => status' = KILLED
         /\ (werr.kind = "exit"
               /\ werr.ws \notin {KilledBy(SIGTERM), KilledBy(SIGTERM) + WsCore,
                                  KilledBy(SIGKILL), KilledBy(SIGKILL) + WsCore})
               => status' = FAILED
         /\ werr.kind = "other" => status' = FAILED
         /\ (status' \in Terminal)]_vars

\* C9 witness: the reaper has just stored STOPPED for a child SIGTERM ended.
C9_Witness == reaperPc = "markdone" /\ status = STOPPED /\ termDelivered

\* C10: whenever a reader's channel was closed at the end of the stream (not
\* by cancellation), Status is terminal.
C10_EndOfStreamIsTerminal ==
    \A r \in Readers : rpc[r] = "eos" => status \in Terminal

\* C13: a reader's channel is closed only when its context is cancelled, or
\* when the writer is closed and the reader's cursor equals the buffer length.
C13_ClosedOnlyWhenDue ==
    [][\A r \in Readers :
          (rpc[r] \notin {"eos", "cancelled"} /\ rpc'[r] \in {"eos", "cancelled"})
              => (rctx[r] \/ (writerClosed /\ index[r] = Len(output)))]_vars

\* C17: after the server's shutdown context is cancelled, once exec.Cmd's
\* watcher and the reaper of a registered job have finished, the job's status
\* is terminal.
C17_ShutdownLeadsToTerminal ==
    (shutdown /\ startPc = "registered" /\ watchPc = "done" /\ reaperPc = "done")
        => status \in Terminal

\* C19: a Stop on a job whose context a Stop has already cancelled changes
\* nothing at all, and once the cancel action of exec.Cmd has run it never
\* runs again: the signal it sent and the error it kept stay as they are.
C19_StopIdempotent ==
    /\ [](cancelled => ~ENABLED <<ManagerStop>>_vars)
    /\ [][(watchPc \in {"delay", "result", "done"})
            => /\ watchPc' # "watch"
               /\ termDelivered' = termDelivered
               /\ watchErr' = watchErr]_vars

\* C19 witness: Stop was called while the child ran, the cancel action
\* delivered its signal, and the job has ended STOPPED.
C19_Witness ==
    /\ cancelled /\ ~shutdown /\ stopOnRunning
    /\ termDelivered
    /\ reaperPc = "done" /\ status = STOPPED

\* C20: a Manager.Stop on a job whose status is terminal leaves the status,
\* the output buffer, its published length and the writer-closed flag as
\* they are, sends no signal, and the status stays terminal afterwards.
C20_StopOnTerminalIsNoOp ==
    /\ [][(status \in Terminal /\ ~cancelled /\ cancelled')
            => /\ status' = status
               /\ output' = output
               /\ length' = length
               /\ writerClosed' = writerClosed
               /\ termDelivered' = termDelivered]_vars
    /\ []((cancelled /\ ~stopOnRunning) => status \in Terminal)

\* C20 witness: Stop was called on a job that had COMPLETED with output
\* written and the writer closed.
C20_Witness ==
    /\ cancelled /\ ~stopOnRunning /\ ~shutdown
    /\ status = COMPLETED
    /\ writerClosed /\ Len(output) > 0

\* C5: a reader started after CloseWriter and never cancelled, whose consumer
\* keeps receiving, is sent the whole output once, from its first byte, and
\* then has its channel closed with every chunk received.
C5_LateReaderGetsAllAndEnds ==
    \A r \in JobReaders :
        (lateBorn[r] /\ rpc[r] # "none")
            ~> (rctx[r] \/ (rpc[r] = "eos" /\ stream[r] = <<>> /\ sent[r] = output))

\* C5 witness: a late reader of a non-empty output has been sent all of it in
\* more than one chunk, its channel is closed and drained.
C5_Witness ==
    \E r \in Readers :
        /\ lateBorn[r] /\ ~rctx[r] /\ rpc[r] = "eos"
        /\ stream[r] = <<>>
        /\ Len(sent[r]) > StreamMessageSize

\* ------------------------------------------- the streamer on its own
\* An OutputStreamer driven through its exported methods by any callers:
\* Write and CloseWriter in any interleaving, NewStream at any time.
StreamerWrite ==
    /\ WriteBegin
    /\ UNCHANGED <<jobVars, readerVars, obsVars, mgrVars, callVars, cliVars>>

StreamerCloseWriter ==
    /\ CloseWriter
    /\ UNCHANGED <<jobVars, output, length, wpc, readerVars, obsVars, mgrVars, callVars, cliVars>>

StreamerNewStream(r) ==
    /\ rpc[r] = "none"
    /\ rpc' = [rpc EXCEPT ![r] = "top"]
    /\ lateBorn' = [lateBorn EXCEPT ![r] = writerClosed]
    /\ UNCHANGED <<index, msg, stream, sent, rctx>>
    /\ UnchangedByReader

OMInit ==
    InitJob /\ InitStreamer(StreamerReaders) /\ InitManager /\ InitCgroups({}) /\ cli = NoCli

OMNext ==
    \/ StreamerWrite
    \/ WriteAppend
    \/ StreamerCloseWriter
    \/ \E r \in Readers : StreamerNewStream(r)
    \/ \E r \in Readers : ReaderStep(r)
    \/ \E r \in Readers : Recv(r)
    \/ \E r \in Readers : CancelReader(r)

OMSpec == OMInit /\ [][OMNext]_vars

\* C4: at every moment the bytes sent on a reader's channel are a prefix of
\* the output, and the reader's index is the number of bytes it has taken:
\* chunks start at offset 0 and follow each other without gap or overlap.
C4_SentIsPrefix ==
    \A r \in Readers :
        /\ IsPrefix(sent[r] \o msg[r], output)
        /\ index[r] = Len(sent[r]) + Len(msg[r])

\* C4 witness: a reader has sent a full chunk and then the rest of the output.
C4_Witness ==
    \E r \in Readers :
        /\ Len(sent[r]) > StreamMessageSize
        /\ sent[r] = output
        /\ rpc[r] = "top"

\* C30: a CloseWriter on a streamer whose writer is closed changes nothing:
\* the flag stays set, buffer, length and readers are as they were; the
\* writer is never reopened.
C30_CloseWriterIdempotent ==
    /\ [](writerClosed => ~ENABLED <<StreamerCloseWriter>>_vars)
    /\ [][writerClosed => writerClosed']_vars

\* C30 witness: the writer of a streamer with output is closed and a reader
\* has reached the end of the stream with all of it.
C30_Witness ==
    /\ writerClosed /\ Len(output) = MaxBuf /\ wpc = "idle"
    /\ \E r \in Readers : rpc[r] = "eos" /\ sent[r] = output

\* C12: once the context passed to NewStream is cancelled, the reader takes no
\* further chunk from the buffer to send, wherever its cursor is.
C12_CancelledTakesNoChunk ==
    [][\A r \in Readers : rctx[r] => (index'[r] = index[r])]_vars

\* -------------------------------- the streamer as its callers see it
\* The OutputStreamer with Write in the steps its caller and the readers can
\* tell apart: the call with its input, o.mu taken (after the readers inside
\* Next have left), the append, and the values returned; and Next in two
\* steps, so that a reader holding o.mu's read lock is a state.
PairReaders == {1, 2}
\* Most bytes written to that streamer.
MaxCallBuf == 1

\* Write line 63: return 0, ErrOutputStreamerClosed
WriteRefused == [n |-> 0, err |-> "ErrOutputStreamerClosed"]

\* a faulty Write: reports no byte accepted
WriteAcceptedNone(b) == [n |-> 0, err |-> "nil"]

\* Write line 67: return len(b), nil
WriteAccepted(b) == [n |-> Len(b), err |-> "nil"]

\* a faulty Next: the read lock is released only after the send
ReadLockHeldThroughSend == {"rlocked", "send"}

\* Where a reader goroutine holds o.mu's read lock: inside Next, between
\* RLock and the deferred RUnlock (lines 82-87), which runs as Next returns.
ReadLockHeldAt == {"rlocked"}

UnchangedByCall == UNCHANGED <<jobVars, readerVars, obsVars, mgrVars, cliVars>>

\* A caller calls Write(b) and waits at o.mu.Lock() (line 60).
WriteCall ==
    /\ wpc = "idle"
    /\ \E k \in 0..Min(MaxWriteLen, MaxCallBuf - Len(output)) :
          winput' = Payload(Len(output), k)
    /\ wpc' = "waiting"
    /\ UNCHANGED <<output, length, writerClosed, wres>>
    /\ UnchangedByCall

\* Lines 60-64: o.mu is granted once no reader is inside Next; a closed
\* streamer makes Write return 0 and ErrOutputStreamerClosed.
WriteLock ==
    /\ wpc = "waiting"
    /\ \A r \in Readers : rpc[r] \notin ReadLockHeldAt
    /\ IF WriterClosedLoad
       THEN /\ wpc' = "idle"
            /\ wres' = WriteRefused
            /\ winput' = <<>>
       ELSE /\ wpc' = "appending"
            /\ UNCHANGED <<winput, wres>>
    /\ UNCHANGED <<output, length, writerClosed>>
    /\ UnchangedByCall

\* Lines 65-67: append b, publish the length, return len(b) and nil; the
\* deferred Unlock releases o.mu.
WriteStore ==
    /\ wpc = "appending"
    /\ output' = output \o winput
    /\ length' = Len(output \o winput)
    /\ wres' = WriteAccepted(winput)
    /\ winput' = <<>>
    /\ wpc' = "idle"
    /\ UNCHANGED writerClosed
    /\ UnchangedByCall

\* Next line 82: o.mu.RLock(), which waits while a Write holds or awaits o.mu.
ReaderRLock(r) ==
    /\ rpc[r] = "slice"
    /\ wpc = "idle"
    /\ rpc' = [rpc EXCEPT ![r] = "rlocked"]
    /\ UNCHANGED <<index, msg, stream, sent, rctx, lateBorn>>
    /\ UnchangedByReader

\* Next lines 84-87 and the deferred RUnlock, then NewStream line 113.
ReaderRUnlock(r) ==
    /\ rpc[r] = "rlocked"
    /\ msg' = [msg EXCEPT ![r] = NextSlice(index[r])]
    /\ index' = [index EXCEPT ![r] = index[r] + Len(NextSlice(index[r]))]
    /\ rpc' = [rpc EXCEPT ![r] = "send"]
    /\ UNCHANGED <<stream, sent, rctx, lateBorn>>
    /\ UnchangedByReader

\* NewStream lines 100-108: the channel is made and the goroutine started.
CallNewStream(r) ==
    /\ rpc[r] = "none"
    /\ rpc' = [rpc EXCEPT ![r] = "top"]
    /\ UNCHANGED <<index, msg, stream, sent, rctx, lateBorn>>
    /\ UnchangedByReader

CallReaderStep(r) ==
    \/ ReaderTop(r)
    \/ ReaderNext(r)
    \/ ReaderRLock(r)
    \/ ReaderRUnlock(r)
    \/ ReaderSend(r)
    \/ ReaderEq(r)
    \/ ReaderClosedCheck(r)
    \/ ReaderTick(r)
    \/ ReaderCtxDone(r)

CallInit ==
    InitJob /\ InitStreamer(PairReaders) /\ InitManager /\ InitCgroups({}) /\ cli = NoCli

CallNext ==
    \/ WriteCall
    \/ WriteLock
    \/ WriteStore
    \/ StreamerCloseWriter
    \/ \E r \in Readers : CallNewStream(r)
    \/ \E r \in Readers : CallReaderStep(r)
    \/ \E r \in Readers : Recv(r)
    \/ \E r \in Readers : CancelReader(r)

CallSpec == CallInit /\ [][CallNext]_vars

\* The steps that wait for nothing but the scheduler and o.mu are taken; a
\* send on a channel, a receive and a tick need not be.  Each of these steps
\* moves the program counter its subscript names.
CallFairSpec ==
    /\ CallSpec
    /\ WF_wpc(WriteLock)
    /\ WF_wpc(WriteStore)
    /\ \A r \in PairReaders : SF_rpc(ReaderRLock(r)) /\ WF_rpc(ReaderRUnlock(r))

\* C11: with one reader's context cancelled, every other reader that is not
\* cancelled has been sent the complete output when its channel is closed.
C11_OthersGetAll ==
    \A r \in Readers : \A q \in Readers \ {r} :
        (rctx[r] /\ ~rctx[q] /\ rpc[q] = "eos" /\ wpc = "idle") => sent[q] = output

\* C14: a Write that has been called returns, and a reader that wants the
\* next chunk gets it, whatever the other readers do: parked at a send nobody
\* receives, slow, or cancelled.
C14_WriteCompletes ==
    /\ (wpc = "waiting") ~> (wpc = "idle")
    /\ \A q \in PairReaders : (rpc[q] = "slice") ~> (rpc[q] = "send")

\* C14 witness: a Write holds o.mu while one reader is parked at its send
\* and the other reader is cancelled.
C14_Witness ==
    /\ wpc = "appending"
    /\ \E r \in Readers : \E q \in Readers \ {r} :
          rpc[r] = "send" /\ rctx[q] /\ rpc[q] # "none"

C16_NoGrowthAfterClose ==
    [][writerClosed => (length' = length /\ output' = output)]_vars

\* ------------------------------------------- Manager.Start and the cgroups
\* Manager.Start as it runs with the cgroup manager: AddGroup step by step,
\* StartNewJob, the registration and the deferred scheduleCGroupCleanup; the
\* job behind it is its child, its status cell and its done-signal.  Each
\* attempt has its own uuid, leaf directory and group name.
UnchangedByCg ==
    UNCHANGED <<jobVars, omVars, readerVars, obsVars, callVars, cliVars,
                jobMap, jobOwner, jobId, jobCancelled, jobRead, lastCall>>

UnchangedJobOfCg == UNCHANGED <<removeRes, cgChild, cgStatus, cgDone, cgReg>>

\* AddGroup lines 65-67: os.Mkdir makes the leaf, or fails.
AddGroupMkdir(a) ==
    /\ cgPc[a] = "idle"
    /\ \/ /\ dirExists' = [dirExists EXCEPT ![a] = TRUE]
          /\ cgPc' = [cgPc EXCEPT ![a] = "mkdir"]
          /\ UNCHANGED addFail
       \/ /\ cgPc' = [cgPc EXCEPT ![a] = "addfailed"]
          /\ addFail' = [addFail EXCEPT ![a] = "mkdir"]
          /\ UNCHANGED dirExists
    /\ UNCHANGED <<dirFd, memFd, groups, rmFailed>>
    /\ UnchangedJobOfCg
    /\ UnchangedByCg

\* AddGroup lines 68-71: os.Open(dirPath); on an error AddGroup returns it.
AddGroupOpenDir(a) ==
    /\ cgPc[a] = "mkdir"
    /\ \/ /\ dirFd' = [dirFd EXCEPT ![a] = TRUE]
          /\ cgPc' = [cgPc EXCEPT ![a] = "opened"]
          /\ UNCHANGED addFail
       \/ /\ cgPc' = [cgPc EXCEPT ![a] = "addfailed"]
          /\ addFail' = [addFail EXCEPT ![a] = "open"]
          /\ UNCHANGED dirFd
    /\ UNCHANGED <<dirExists, memFd, groups, rmFailed>>
    /\ UnchangedJobOfCg
    /\ UnchangedByCg

\* os.Remove(dirPath) on AddGroup's error paths (lines 74, 82): the
\* directory goes, or the removal fails and it stays.
RemoveDirBestEffort(a) ==
    \/ /\ dirExists' = [dirExists EXCEPT ![a] = FALSE]
       /\ UNCHANGED rmFailed
    \/ /\ rmFailed' = [rmFailed EXCEPT ![a] = TRUE]
       /\ UNCHANGED dirExists

\* AddGroup lines 72-79: os.Open of memory.max; on an error the directory
\* is removed and the error returned.
AddGroupOpenMemMax(a) ==
    /\ cgPc[a] = "opened"
    /\ \/ /\ memFd' = [memFd EXCEPT ![a] = TRUE]
          /\ cgPc' = [cgPc EXCEPT ![a] = "memopened"]
          /\ UNCHANGED <<addFail, dirExists, rmFailed>>
       \/ /\ cgPc' = [cgPc EXCEPT ![a] = "addfailed"]
          /\ addFail' = [addFail EXCEPT ![a] = "memopen"]
          /\ RemoveDirBestEffort(a)
          /\ UNCHANGED memFd
    /\ UNCHANGED <<dirFd, groups>>
    /\ UnchangedJobOfCg
    /\ UnchangedByCg

\* AddGroup lines 80-94: the write to memory.max; on an error the directory
\* is removed and the error returned, otherwise the entry is stored in
\* m.groups and the directory's descriptor returned.
AddGroupWrite(a) ==
    /\ cgPc[a] = "memopened"
    /\ \/ /\ groups' = groups \cup {a}
          /\ cgPc' = [cgPc EXCEPT ![a] = "added"]
          /\ UNCHANGED <<addFail, dirExists, rmFailed>>
       \/ /\ cgPc' = [cgPc EXCEPT ![a] = "addfailed"]
          /\ addFail' = [addFail EXCEPT ![a] = "write"]
          /\ RemoveDirBestEffort(a)
          /\ UNCHANGED groups
    /\ UNCHANGED <<dirFd, memFd>>
    /\ UnchangedJobOfCg
    /\ UnchangedByCg

\* FSManager.RemoveGroup: an unknown name gives the error "cgroup not
\* found"; otherwise the directory handle is closed and the entry deleted.
\* The directory itself is not touched.
RemoveGroup(a) ==
    /\ IF a \in groups
       THEN /\ dirFd' = [dirFd EXCEPT ![a] = FALSE]
            /\ groups' = groups \ {a}
            /\ removeRes' = [removeRes EXCEPT ![a] = "nil"]
       ELSE /\ removeRes' = [removeRes EXCEPT ![a] = "notfound"]
            /\ UNCHANGED <<dirFd, groups>>
    /\ UNCHANGED <<dirExists, memFd>>

\* a faulty Start: goes on to register the job although the spawn failed
SpawnFailureFallsThrough == "stored"

\* Where Manager.Start stands after StartNewJob returned an error: at the
\* return of line 202, with the deferred cleanup still to run.
SpawnFailurePc == "spawnfailed"

\* Manager.Start line 200, StartNewJob: cmd.Start succeeds and start()
\* spawns the reaper, or it fails, the job is marked done and nil returned.
CgSpawn(a) ==
    /\ cgPc[a] = "added"
    /\ \/ /\ cgChild' = [cgChild EXCEPT ![a] = "running"]
          /\ cgPc' = [cgPc EXCEPT ![a] = "spawned"]
          /\ UNCHANGED cgDone
       \/ /\ cgDone' = [cgDone EXCEPT ![a] = TRUE]
          /\ cgPc' = [cgPc EXCEPT ![a] = SpawnFailurePc]
          /\ UNCHANGED cgChild
    /\ UNCHANGED <<dirExists, dirFd, memFd, groups, addFail, rmFailed, removeRes,
                   cgStatus, cgReg>>
    /\ UnchangedByCg

\* StartNewJob line 42: j.status.Store(RUNNING).
CgStoreRunning(a) ==
    /\ cgPc[a] = "spawned"
    /\ cgStatus' = [cgStatus EXCEPT ![a] = RUNNING]
    /\ cgPc' = [cgPc EXCEPT ![a] = "stored"]
    /\ UNCHANGED <<dirExists, dirFd, memFd, groups, addFail, rmFailed, removeRes,
                   cgChild, cgDone, cgReg>>
    /\ UnchangedByCg

\* Manager.Start lines 205-207: the job is stored in jobMap.
CgRegister(a) ==
    /\ cgPc[a] = "stored"
    /\ cgReg' = cgReg \cup {a}
    /\ cgPc' = [cgPc EXCEPT ![a] = "registered"]
    /\ UNCHANGED <<dirExists, dirFd, memFd, groups, addFail, rmFailed, removeRes,
                   cgChild, cgStatus, cgDone>>
    /\ UnchangedByCg

\* Manager.Start returns (line 202 or 209): the deferred
\* scheduleCGroupCleanup (line 198) runs, which calls RemoveGroup.
CgReturn(a) ==
    /\ cgPc[a] \in {"registered", "spawnfailed"}
    /\ RemoveGroup(a)
    /\ cgPc' = [cgPc EXCEPT ![a] = IF cgPc[a] = "registered" THEN "returned" ELSE "failed"]
    /\ UNCHANGED <<addFail, rmFailed, cgChild, cgStatus, cgDone, cgReg>>
    /\ UnchangedByCg

\* The job's child exits: its cgroup is populated no more.
CgChildExit(a) ==
    /\ cgChild[a] = "running"
    /\ cgChild' = [cgChild EXCEPT ![a] = "exited"]
    /\ UNCHANGED <<cgPc, dirExists, dirFd, memFd, groups, addFail, rmFailed, removeRes,
                   cgStatus, cgDone, cgReg>>
    /\ UnchangedByCg

\* The reaper: cmd.Wait has returned, setDoneStatus stores the terminal
\* status and marks the job done.
CgReaper(a) ==
    /\ cgChild[a] = "exited"
    /\ ~cgDone[a]
    /\ cgStatus' = [cgStatus EXCEPT ![a] = COMPLETED]
    /\ cgDone' = [cgDone EXCEPT ![a] = TRUE]
    /\ UNCHANGED <<cgPc, dirExists, dirFd, memFd, groups, addFail, rmFailed, removeRes,
                   cgChild, cgReg>>
    /\ UnchangedByCg

AddGroup(a) ==
    \/ AddGroupMkdir(a)
    \/ AddGroupOpenDir(a)
    \/ AddGroupOpenMemMax(a)
    \/ AddGroupWrite(a)

CgNext ==
    \/ \E a \in Attempts : AddGroup(a)
    \/ \E a \in Attempts : CgSpawn(a)
    \/ \E a \in Attempts : CgStoreRunning(a)
    \/ \E a \in Attempts : CgRegister(a)
    \/ \E a \in Attempts : CgReturn(a)
    \/ \E a \in Attempts : CgChildExit(a)
    \/ \E a \in Attempts : CgReaper(a)

CgInit ==
    InitJob /\ InitStreamer(JobReaders) /\ InitManager /\ InitCgroups(Attempts) /\ cli = NoCli

CgSpec == CgInit /\ [][CgNext]_vars

\* The leaf's cgroup.events reports populated 1.
Populated(a) == cgChild[a] = "running"

\* C22: a Start that returns an error has registered nothing, and every job
\* in the registry has been spawned and has had its status cell set.
C22_OnlyStartedJobsRegistered ==
    \A a \in Attempts :
        /\ (cgPc[a] \in {"addfailed", "spawnfailed", "failed"}) => a \notin cgReg
        /\ (a \in cgReg) => (cgChild[a] # "none" /\ cgStatus[a] # UNSET)

\* C22 witness: one Start failed at the spawn and has returned, another has
\* registered its job.
C22_Witness ==
    \E a \in Attempts : \E b \in Attempts :
        /\ cgPc[a] = "failed" /\ a \notin cgReg
        /\ cgPc[b] = "returned" /\ b \in cgReg

\* C24: RemoveGroup for a job is invoked only after the job's done-signal
\* has fired.
C24_RemoveOnlyAfterDone ==
    [][\A a \in Attempts :
          (removeRes[a] = "none" /\ removeRes'[a] # "none") => cgDone[a]]_vars

\* C25: once the teardown of a successfully started job that is done and
\* whose cgroup is empty has completed, the leaf directory is gone.
C25_LeafUnlinkedAfterTeardown ==
    \A a \in Attempts :
        (cgPc[a] = "returned" /\ removeRes[a] = "nil" /\ cgDone[a] /\ ~Populated(a))
            => ~dirExists[a]

\* C26: the leaf's directory handle is closed and the leaf unlinked only
\* when the leaf is not populated.
C26_NoCloseWhilePopulated ==
    [][\A a \in Attempts :
          ((a \in groups /\ dirFd[a] /\ ~dirFd'[a]) \/ (a \in groups /\ dirExists[a] /\ ~dirExists'[a]))
              => ~Populated(a)]_vars

\* C27: after a Start that failed at the spawn has returned, the leaf it
\* created is reclaimed: handle closed, entry removed, directory gone.
C27_SpawnFailureReclaimsLeaf ==
    \A a \in Attempts :
        cgPc[a] = "failed" => (~dirFd[a] /\ a \notin groups /\ ~dirExists[a])

\* C29: when AddGroup has returned an error after its mkdir succeeded, the
\* leaf directory is removed again unless the removal failed, the name has
\* no entry, and no handle to the directory is left open.
C29_AddFailureCleansUp ==
    \A a \in Attempts :
        (cgPc[a] = "addfailed" /\ addFail[a] \in {"open", "memopen", "write"})
            => /\ dirExists[a] => rmFailed[a]
               /\ a \notin groups
               /\ ~dirFd[a]

\* ------------------------------------------- the cgroup manager on its own
\* FSManager driven through AddGroup and RemoveGroup by any caller.
FsmRemoveGroup(a) ==
    /\ cgPc[a] \in {"added", "addfailed"}
    /\ RemoveGroup(a)
    /\ UNCHANGED <<cgPc, addFail, rmFailed, cgChild, cgStatus, cgDone, cgReg>>
    /\ UnchangedByCg

FsmNext ==
    \/ \E a \in Attempts : AddGroup(a)
    \/ \E a \in Attempts : FsmRemoveGroup(a)

FsmSpec == CgInit /\ [][FsmNext]_vars

\* C28: a RemoveGroup of a name that has been removed returns no error and
\* changes neither the group map nor the filesystem.
C28_RemoveTwiceIsNoOp ==
    [][\A a \in Attempts :
          (removeRes[a] = "nil")
              => /\ removeRes'[a] = "nil"
                 /\ groups' = groups
                 /\ dirExists'[a] = dirExists[a]
                 /\ dirFd'[a] = dirFd[a]]_vars

\* ------------------------------------------------------------ the registry
\* Strings are sequences of characters.  Usernames are the Common Names of
\* client certificates; a job id a caller supplies is any string.
Chars == {"a", "b", "-"}
Hex == {"a", "b"}
\* Longest job id a caller supplies.
MaxIdLen == 3

Strings(n) == UNION {[1..k -> Chars] : k \in 0..n}

Users == {<<"a">>, <<"b">>, <<"a", "-", "b">>}
\* uuid.NewString(), scaled down to one hex digit
UUIDs == {<<h>> : h \in Hex}
SuppliedIds == Strings(MaxIdLen)

\* a faulty keyString: the username alone
keyStringUserOnly(username, jobID) == username

\* keyString: jobID + "-" + username
keyString(username, jobID) == jobID \o <<"-">> \o username

\* Manager.getJob: the job under the key, 0 (nil, ErrJobNotFound) if none
getJob(username, jobID) ==
    IF keyString(username, jobID) \in DOMAIN jobMap
    THEN jobMap[keyString(username, jobID)]
    ELSE 0

UnchangedByMgr == UNCHANGED <<jobVars, omVars, readerVars, obsVars, callVars, cliVars, cgVars>>

\* Manager.Start succeeds: a fresh uuid, the job stored under its key.
MgrStart(username) ==
    /\ Len(jobId) < MaxJobs
    /\ \E id \in UUIDs \ {jobId[j] : j \in DOMAIN jobId} :
          /\ jobId' = Append(jobId, id)
          /\ jobOwner' = Append(jobOwner, username)
          /\ jobMap' = [k \in DOMAIN jobMap \cup {keyString(username, id)} |->
                          IF k = keyString(username, id) THEN Len(jobId) + 1 ELSE jobMap[k]]
    /\ UNCHANGED <<jobCancelled, jobRead, lastCall>>
    /\ UnchangedByMgr

\* a faulty Status: reports a job that is not there as running
StatusReturnRunning(j) == [err |-> "nil", val |-> RUNNING]

\* What Manager.Stop returns for the job getJob gave (0: none): an error
\* wrapping ErrJobNotFound, or nil.
StopReturn(j) ==
    IF j = 0 THEN [err |-> "ErrJobNotFound", val |-> "none"]
    ELSE [err |-> "nil", val |-> "none"]

\* What Manager.Status returns: STATUS_UNSPECIFIED and an error wrapping
\* ErrJobNotFound, or j.Status() and nil.
StatusReturn(j) ==
    IF j = 0 THEN [err |-> "ErrJobNotFound", val |-> "STATUS_UNSPECIFIED"]
    ELSE [err |-> "nil", val |-> "j.Status()"]

\* What Manager.OutputStream returns: a nil channel and an error wrapping
\* ErrJobNotFound, or the channel of j.OutputStream(ctx) and nil.
OutputStreamReturn(j) ==
    IF j = 0 THEN [err |-> "ErrJobNotFound", val |-> "nil"]
    ELSE [err |-> "nil", val |-> "j.OutputStream(ctx)"]

\* a faulty cancel: the CancelFunc of the context all jobs derive from
CancelScopeParent(j) == DOMAIN jobId

\* The jobs whose context j.cancel() cancels: newJob line 53 makes the
\* context with WithCancel(shutdownCtx) for this job alone, and its
\* CancelFunc cancels that context and its children, never its parent.
CancelScope(j) == {j}

\* Manager.Stop: getJob, then Job.Stop cancels the job's context.
MgrStop(username, jobID) ==
    /\ lastCall' = [op |-> "stop", user |-> username,
                    found |-> getJob(username, jobID) # 0, job |-> getJob(username, jobID),
                    err |-> StopReturn(getJob(username, jobID)).err,
                    val |-> StopReturn(getJob(username, jobID)).val]
    /\ jobCancelled' = IF getJob(username, jobID) # 0
                       THEN jobCancelled \cup CancelScope(getJob(username, jobID))
                       ELSE jobCancelled
    /\ UNCHANGED <<jobMap, jobOwner, jobId, jobRead>>
    /\ UnchangedByMgr

\* Manager.Status: getJob, then Job.Status reports the job's status.
MgrStatus(username, jobID) ==
    /\ lastCall' = [op |-> "status", user |-> username,
                    found |-> getJob(username, jobID) # 0, job |-> getJob(username, jobID),
                    err |-> StatusReturn(getJob(username, jobID)).err,
                    val |-> StatusReturn(getJob(username, jobID)).val]
    /\ jobRead' = IF getJob(username, jobID) # 0
                  THEN jobRead \cup {getJob(username, jobID)}
                  ELSE jobRead
    /\ UNCHANGED <<jobMap, jobOwner, jobId, jobCancelled>>
    /\ UnchangedByMgr

\* Manager.OutputStream: getJob, then Job.OutputStream reads the job's output.
MgrOutputStream(username, jobID) ==
    /\ lastCall' = [op |-> "output", user |-> username,
                    found |-> getJob(username, jobID) # 0, job |-> getJob(username, jobID),
                    err |-> OutputStreamReturn(getJob(username, jobID)).err,
                    val |-> OutputStreamReturn(getJob(username, jobID)).val]
    /\ jobRead' = IF getJob(username, jobID) # 0
                  THEN jobRead \cup {getJob(username, jobID)}
                  ELSE jobRead
    /\ UNCHANGED <<jobMap, jobOwner, jobId, jobCancelled>>
    /\ UnchangedByMgr

MgrNext ==
    \/ \E u \in Users : MgrStart(u)
    \/ \E u \in Users, id \in SuppliedIds : MgrStop(u, id)
    \/ \E u \in Users, id \in SuppliedIds : MgrStatus(u, id)
    \/ \E u \in Users, id \in SuppliedIds : MgrOutputStream(u, id)

MgrSpec == Init /\ [][MgrNext]_vars

\* C3: a Stop, Status or OutputStream call reaches a job only if the caller
\* is the user who started it, whatever job id the caller supplies.
C3_OnlyOwnerReaches ==
    lastCall.found => jobOwner[lastCall.job] = lastCall.user

C21_NotFoundIsAnError ==
    /\ []((lastCall.op # "none" /\ ~lastCall.found)
            => /\ lastCall.err = "ErrJobNotFound"
               /\ lastCall.job = 0
               /\ lastCall.op = "status" => lastCall.val = "STATUS_UNSPECIFIED"
               /\ lastCall.op = "output" => lastCall.val = "nil")
    /\ [][(lastCall' # lastCall /\ ~lastCall'.found)
            => UNCHANGED <<jobMap, jobOwner, jobId, jobCancelled, jobRead,
                           rpc, status, cancelled>>]_vars

\* C21 witness: with two jobs registered, a Status call found none.
C21_Witness ==
    /\ Len(jobId) = MaxJobs
    /\ lastCall.op = "status" /\ ~lastCall.found
    /\ lastCall.val = "STATUS_UNSPECIFIED"

\* C23: an entry of the registry is never removed or replaced, and the
\* (user, id) a Start returned keeps finding the job that Start registered.
C23_EntriesStay ==
    /\ [][\A k \in DOMAIN jobMap :
             k \in DOMAIN jobMap' /\ jobMap'[k] = jobMap[k]]_vars
    /\ [](\A j \in DOMAIN jobId : getJob(jobOwner[j], jobId[j]) = j)

\* C23 witness: one user has started two jobs, the second after a Stop of
\* the first, and a later Status call found the first.
C23_Witness ==
    /\ Len(jobId) = MaxJobs
    /\ jobOwner[1] = jobOwner[MaxJobs]
    /\ 1 \in jobCancelled
    /\ lastCall.op = "status" /\ lastCall.found /\ lastCall.job = 1

\* C31: every chunk a reader sends is non-empty and has at most
\* streamMessageSize bytes: the chunks waiting in its channel, the chunk it
\* is about to send, and the slice Next returns at every cursor position
\* inside the buffer, for every buffer the writers can produce.
C31_ChunkSizes ==
    /\ \A r \in Readers :
          /\ \A i \in 1..Len(stream[r]) :
                Len(stream[r][i]) >= 1 /\ Len(stream[r][i]) <= StreamMessageSize
          /\ rpc[r] = "send" => (Len(msg[r]) >= 1 /\ Len(msg[r]) <= StreamMessageSize)
    /\ \A idx \in 0..(Len(output) - 1) :
          Len(NextSlice(idx)) >= 1 /\ Len(NextSlice(idx)) <= StreamMessageSize

\* C31 witness: a reader's channel holds a chunk cut at the ceiling, with
\* more left in the buffer, and behind it the shorter rest.
C31_Witness ==
    \E r \in Readers :
        /\ Len(stream[r]) = StreamChanCap
        /\ Len(stream[r][1]) = StreamMessageSize
        /\ Len(stream[r][StreamChanCap]) < StreamMessageSize
        /\ sent[r] = output

\* ------------------------------- the streamer and one scheduled reader
\* The streamer driven freely, with the reader goroutine scheduled, its
\* ticker ticking and its consumer receiving, and a Write that holds o.mu
\* running on to its deferred Unlock.  Every reader step moves rpc, every
\* receive shortens stream and the append moves wpc, so the subscripts name
\* just those.
OMFairSpec ==
    /\ Init /\ [][OMNext]_vars
    /\ WF_wpc(WriteAppend)
    /\ \A r \in JobReaders : WF_rpc(ReaderStep(r)) /\ WF_stream(Recv(r))

\* C32: while the writer is open, each byte of the output is eventually
\* sent to a reader that has been started, unless the reader is cancelled:
\* a reader that has caught up and waits in its select wakes on a tick and
\* delivers what was written since.
C32_WrittenIsSent ==
    \A r \in JobReaders : \A n \in 1..MaxBuf :
        (rpc[r] # "none" /\ Len(output) >= n)
            ~> (Len(sent[r]) >= n \/ rctx[r] \/ writerClosed)

\* C32 witness: a reader that has sent output before waits in its select
\* while a Write has published bytes it has not taken, the writer open.
C32_Witness ==
    \E r \in Readers :
        /\ rpc[r] = "select" /\ ~rctx[r] /\ ~writerClosed
        /\ sent[r] # <<>>
        /\ index[r] < length

\* C33: Job.Status on a job that is in the registry never finds the status
\* cell unset (it does not panic), and as long as the reaper has not stored
\* a terminal value it returns RUNNING.
C33_RegisteredStatusIsSet ==
    startPc = "registered"
        => /\ JobStatus # "panic"
           /\ reaperPc \in {"procwait", "ctxresult", "await", "setstatus"}
                 => JobStatus = RUNNING

\* C33 witness: the child of a registered job has been reaped and the reaper
\* is about to store the terminal status; Status still gives RUNNING.
C33_Witness ==
    /\ startPc = "registered"
    /\ reaperPc = "setstatus"
    /\ child = "reaped"
    /\ JobStatus = RUNNING

\* ------------------------------------------------ the jog command line
\* command.NewCommand as a function of its argument list.  An argument is
\* the sequence of its characters, so that args[i][0], strings.SplitN and
\* the map lookups are computed as the code computes them.
W_empty == <<>>
W_start == <<"s", "t", "a", "r", "t">>
W_stop == <<"s", "t", "o", "p">>
W_status == <<"s", "t", "a", "t", "u", "s">>
W_output == <<"o", "u", "t", "p", "u", "t">>
W_delim == <<"-", "-">>
W_help == <<"-", "-", "h", "e", "l", "p">>
W_h == <<"-", "h">>
W_host == <<"-", "-", "h", "o", "s", "t">>
W_D == <<"-", "D">>
\* arguments that are none of the above
W_hostA == <<"-", "-", "h", "o", "s", "t", "=", "a">>
W_x == <<"-", "x">>
W_delimA == <<"-", "-", "=", "a">>
W_ls == <<"l", "s">>

\* The arguments the calls are made of, and the longest argument list.
Words == {W_empty, W_start, W_stop, W_status, W_output, W_delim, W_help, W_h,
          W_hostA, W_D, W_x, W_delimA, W_ls}
MaxArgs == 3
ArgLists == UNION {[1..n -> Words] : n \in 0..MaxArgs}

\* subCommandStrings, lines 17-22, and ParseSubCommand, lines 24-31
subCommandStrings == <<W_start, W_stop, W_status, W_output>>

ParseSubCommand(s) ==
    IF \E i \in DOMAIN subCommandStrings : subCommandStrings[i] = s
    THEN [err |-> "nil",
          sub |-> CHOOSE i \in DOMAIN subCommandStrings : subCommandStrings[i] = s]
    ELSE [err |-> "unsupported subcommand", sub |-> 0]

\* The SubCommand Start, lines 10-12: the zero value, which a Command has
\* before a subcommand is parsed; here its place in subCommandStrings.
SubStart == CHOOSE i \in DOMAIN subCommandStrings : subCommandStrings[i] = W_start

\* flagStringMap, lines 47-53
flagStringMap ==
    (W_help :> "Help") @@ (W_h :> "Help") @@ (W_host :> "Host") @@ (W_D :> "Host")
        @@ (W_delim :> "RemoteCommandDelimiter")

\* strings.SplitN(s, "=", 2): s itself when it has no "=", else what is
\* before the first "=" and what is after it.
SplitEq(s) ==
    IF \E k \in DOMAIN s : s[k] = "="
    THEN LET k == CHOOSE k \in DOMAIN s :
                     s[k] = "=" /\ \A m \in 1..(k - 1) : s[m] # "="
         IN <<SubSeq(s, 1, k - 1), SubSeq(s, k + 1, Len(s))>>
    ELSE <<s>>

\* ParseFlag, lines 58-72
ParseFlag(s) ==
    LET parts == SplitEq(s) IN
    IF Len(parts) = 1
    THEN IF s \in DOMAIN flagStringMap
         THEN [flag |-> flagStringMap[s], value |-> <<>>, err |-> "nil"]
         ELSE [flag |-> "Help", value |-> <<>>, err |-> "unsupported flag"]
    ELSE IF parts[1] \in DOMAIN flagStringMap
         THEN [flag |-> flagStringMap[parts[1]], value |-> parts[2], err |-> "nil"]
         ELSE [flag |-> "Help", value |-> <<>>, err |-> "unsupported flag"]

\* c := &Command{}, line 92
NewCmd == [SubCommand |-> SubStart, Host |-> <<>>, JobID |-> <<>>,
           RemoteCommand |-> <<>>, RemoteArgs |-> <<>>, HelpWanted |-> FALSE]

\* What a call gives: a Command and a nil error, nil and an error, or a
\* run-time panic.
RetCmd(c) == [kind |-> "cmd", cmd |-> c, err |-> "nil"]
RetErr(e) == [kind |-> "err", cmd |-> "nil", err |-> e]
RetPanic(e) == [kind |-> "panic", cmd |-> "nil", err |-> e]

\* Lines 154-164: the required fields.
CheckRequired(c) ==
    IF c.SubCommand = SubStart
    THEN IF c.RemoteCommand = <<>> THEN RetErr("no remote command provided")
         ELSE RetCmd(c)
    ELSE IF c.JobID = <<>> THEN RetErr("no job id provided")
         ELSE RetCmd(c)

\* The loop of lines 107-152 from position i (1-based) on, over the
\* arguments after the subcommand.
RECURSIVE ParseRest(_, _, _)
ParseRest(a, i, c) ==
    IF i > Len(a) THEN CheckRequired(c)
    ELSE IF a[i] = W_delim
    THEN IF i + 1 > Len(a) THEN RetErr("no remote command provided")
         ELSE CheckRequired([c EXCEPT !.RemoteCommand = a[i + 1],
                                      !.RemoteArgs = SubSeq(a, i + 2, Len(a))])
    ELSE IF Len(a[i]) = 0 THEN RetPanic("index out of range [0] with length 0")
    ELSE IF a[i][1] = "-"
    THEN LET f == ParseFlag(a[i]) IN
         IF f.err # "nil" THEN RetErr(f.err)
         ELSE IF f.flag = "Help" THEN RetCmd([c EXCEPT !.HelpWanted = TRUE])
         ELSE IF f.flag = "Host" THEN ParseRest(a, i + 1, [c EXCEPT !.Host = f.value])
         ELSE RetErr("unsupported flag")
    ELSE IF c.SubCommand # SubStart
    THEN CheckRequired([c EXCEPT !.JobID = a[i]])
    ELSE RetErr("no remote command divider provided")

\* NewCommand, lines 87-165
NewCommand(args) ==
    IF Len(args) = 0 THEN RetErr("no command provided")
    ELSE IF args[1] = W_help \/ args[1] = W_h
    THEN RetCmd([NewCmd EXCEPT !.HelpWanted = TRUE])
    ELSE LET p == ParseSubCommand(args[1]) IN
         IF p.err # "nil" THEN RetErr(p.err)
         ELSE ParseRest(Tail(args), 1, [NewCmd EXCEPT !.SubCommand = p.sub])

\* NewCommand is called with some argument list, and returns.
CliCall ==
    /\ cli.pc = "called"
    /\ cli' = [cli EXCEPT !.pc = "returned", !.res = NewCommand(cli.args)]
    /\ UNCHANGED <<jobVars, omVars, readerVars, obsVars, mgrVars, callVars>>

CmdInit ==
    /\ InitJob /\ InitStreamer({}) /\ InitManager /\ InitCgroups({})
    /\ cli \in {[pc |-> "called", args |-> a, res |-> "none"] : a \in ArgLists}

CmdNext == CliCall

CmdSpec == CmdInit /\ [][CmdNext]_vars

\* The arguments after the subcommand of the call, and what the claims call
\* a flag: an argument that begins with a dash.
CliRest == Tail(cli.args)
IsFlagArg(t) == Len(t) > 0 /\ t[1] = "-"
IsHelpFlag(t) == IsFlagArg(t) /\ ParseFlag(t).err = "nil" /\ ParseFlag(t).flag = "Help"
IsHostFlag(t) == IsFlagArg(t) /\ ParseFlag(t).err = "nil" /\ ParseFlag(t).flag = "Host"
\* The place of the first argument of a with property P(_), 0 if none.
FirstAt(a, P(_)) ==
    IF \E i \in DOMAIN a : P(a[i])
    THEN CHOOSE i \in DOMAIN a : P(a[i]) /\ \A k \in 1..(i - 1) : ~P(a[k])
    ELSE 0
IsDelim(t) == t = W_delim
IsNoFlag(t) == ~IsFlagArg(t)
DelimAt == FirstAt(CliRest, IsDelim)
JobIdAt == FirstAt(CliRest, IsNoFlag)
\* The arguments a help flag does not cut short: none before place n is one.
NoHelpBefore(n) == \A i \in 1..(n - 1) : i \in DOMAIN CliRest => ~IsHelpFlag(CliRest[i])

\* C34: NewCommand for start (no help flag given before the delimiter)
\* returns an error unless the arguments hold the delimiter -- with a
\* token after it; and when they do, with nothing but supported flags
\* before the delimiter, it returns a Command whose RemoteCommand is the
\* token after the delimiter and whose RemoteArgs are all the tokens after
\* that one, as they are.
C34_StartTakesRemoteCommand ==
    (cli.pc = "returned" /\ Len(cli.args) >= 1 /\ cli.args[1] = W_start)
    => LET d == DelimAt
           n == Len(CliRest) IN
       /\ ((d = 0 \/ d = n) /\ NoHelpBefore(IF d = 0 THEN n + 1 ELSE d))
             => cli.res.kind = "err"
       /\ (d > 0 /\ d < n /\ (\A i \in 1..(d - 1) : IsHostFlag(CliRest[i])))
             => (CliRest[d + 1] # W_empty
                   => /\ cli.res.kind = "cmd"
                      /\ cli.res.cmd.RemoteCommand = CliRest[d + 1]
                      /\ cli.res.cmd.RemoteArgs = SubSeq(CliRest, d + 2, n)
                      /\ cli.res.cmd.JobID = W_empty
                      /\ ~cli.res.cmd.HelpWanted)

\* C35: NewCommand for stop, status or output (no help flag given before
\* the job id) returns an error when only flags follow the subcommand, and
\* with supported flags and then an argument that is not a flag it returns
\* a Command whose JobID is that argument; for no arguments, an unknown
\* subcommand and an unsupported flag it returns an error and no Command.
C35_JobIdIsFirstNonFlag ==
    cli.pc = "returned"
    => /\ Len(cli.args) = 0 => (cli.res.kind = "err" /\ cli.res.cmd = "nil")
       /\ (Len(cli.args) >= 1 /\ cli.args[1] \notin {W_help, W_h}
              /\ ParseSubCommand(cli.args[1]).err # "nil")
             => (cli.res.kind = "err" /\ cli.res.cmd = "nil")
       /\ (Len(cli.args) >= 1 /\ cli.args[1] \in {W_stop, W_status, W_output})
             => LET j == JobIdAt
                    n == Len(CliRest) IN
                /\ (j = 0 /\ NoHelpBefore(n + 1)) => cli.res.kind = "err"
                /\ (j > 0 /\ \A i \in 1..(j - 1) : IsHostFlag(CliRest[i]))
                      => (cli.res.kind = "cmd" /\ cli.res.cmd.JobID = CliRest[j])
                /\ (\E i \in 1..n :
                        /\ IsFlagArg(CliRest[i]) /\ ParseFlag(CliRest[i]).err # "nil"
                        /\ \A k \in 1..(i - 1) : IsHostFlag(CliRest[k]))
                      => (cli.res.kind = "err" /\ cli.res.cmd = "nil")

\* C40: NewCommand never panics: for every argument list it returns a
\* Command with a nil error, or no Command and an error.
C40_NewCommandTotal ==
    cli.pc = "returned" => cli.res.kind \in {"cmd", "err"}

\* C36: whenever the done-signal of a job that StartNewJob returned has
\* fired (Job.Wait returns), the writer of its output is closed and its
\* status is terminal: the reaper stores the status and closes the writer
\* before it fires the signal.
C36_DoneAfterStatusAndClose ==
    (doneCtx /\ startPc \in {"returned", "registered"})
        => (writerClosed /\ status \in Terminal)

\* C37: the buffer is append-only: what it held stays a prefix of what it
\* holds, the published length never decreases and never exceeds the
\* buffer's length, every reader's cursor lies between 0 and the published
\* length, and a reader about to slice has its cursor inside the buffer.
C37_AppendOnly ==
    /\ [][IsPrefix(output, output') /\ length' >= length]_vars
    /\ [](/\ length <= Len(output)
          /\ \A r \in Readers :
                /\ 0 <= index[r] /\ index[r] <= length
                /\ rpc[r] = "slice" => index[r] < Len(output))

\* C37 witness: the buffer was filled by more than one Write and the writer
\* closed, while a reader that has taken a first chunk is about to slice
\* the next one.
C37_Witness ==
    /\ Len(output) = MaxBuf /\ Len(output) > MaxWriteLen
    /\ writerClosed
    /\ \E r \in Readers : rpc[r] = "slice" /\ index[r] > 0

\* C38: an AddGroup on a fresh name whose mkdir and two opens succeeded
\* goes on to succeed: it writes memoryTargetBytes/5 to the leaf's
\* memory.max and stores the one entry for the name, with the directory
\* handle open and the leaf in place.
C38_AddGroupSucceeds ==
    [][\A a \in Attempts :
          (cgPc[a] = "memopened" /\ cgPc'[a] # "memopened")
              => /\ cgPc'[a] = "added"
                 /\ addFail'[a] = "none"
                 /\ groups' = groups \cup {a}
                 /\ dirFd'[a] /\ dirExists'[a]]_vars

\* C39: a reader goroutine whose context is cancelled ends without the help
\* of its consumer: as long as it has not closed its channel it has a step
\* of its own to take whenever no Write holds o.mu, also when the channel
\* is full and nobody receives.
C39_CancelledReaderEnds ==
    \A r \in Readers :
        (rctx[r] /\ rpc[r] \notin {"none", "eos", "cancelled"} /\ wpc = "idle")
            => ENABLED <<ReaderStep(r)>>_vars

=============================================================================
